---- MODULE Spec2Model ----
(***************************************************************************)
(* The per-conversation session controller of aadishv/discord-agent.       *)
(*                                                                         *)
(* The repository holds two controllers over the same stores:              *)
(*   src/agent.py  DiscordAgent: a message that arrives while a generation *)
(*                 runs is appended to the thread's queue ("Queue").       *)
(*   src/main.py   ping: a message that arrives while a generation runs    *)
(*                 cancels that task and starts a new one ("Preempt").     *)
(* Init chooses which controller the process runs (policy); the actions of *)
(* each are guarded by it.                                                 *)
(*                                                                         *)
(* Spec is the controller.  ParseSpec runs the attachment loop of          *)
(* _parse_message, which both files share, on every attachment list; the   *)
(* controller keeps of it only whether it waits in attachment.read().      *)
(*                                                                         *)
(* Scheduling is asyncio's: one task runs at a time, from one suspension   *)
(* point (an await that really suspends) to the next.  Every action below  *)
(* is one such run of one task.  Messages are numbered in arrival order;   *)
(* the handler task of message m, and the generation it starts, are both   *)
(* identified by m.                                                        *)
(***************************************************************************)
EXTENDS Integers, Sequences, FiniteSets, TLC

\* Bounds of the model.
MaxMsgs == 3
MaxThreads == 2
NumUsers == 2
MaxAttachments == 3

\* event.message.channel_id == 1452524008233762818: the root channel.
RootChannel == 0
\* txn.get(...) returned None: the thread has no recorded owner.
NoOwner == 0
\* No thread resolved / no task referenced.
NoRef == 0

Msgs == 1..MaxMsgs
Threads == 1..MaxThreads
Users == 1..NumUsers

VARIABLES
    policy,             \* "Queue" (agent.py) or "Preempt" (main.py)
    nmsgs,              \* number of MessageCreateEvents dispatched so far
    chan,               \* chan[m]: event.message.channel_id
    author,             \* author[m]: event.message.author.id
    thr,                \* thr[m]: thread.id the handler resolved (NoRef: none)
    pc,                 \* pc[m]: where the handler / generation of m is suspended
    nthreads,           \* threads created by bot.rest.create_thread
    thread_user_kv,     \* lmdb "user": thread id -> owner
    thread_contents_kv, \* lmdb "contents": thread id -> serialized history
    active_streams,     \* the in-flight table, one entry per thread id
    message_history,    \* message_history[m]: the generation's local history
    current_message,    \* agent.py: current_message of generation m
    cancelReq,          \* main.py: Task.cancel() was called on task m
    waitOn,             \* main.py: the task the handler of m awaits
    outcome,            \* how the generation of m left respond_to_message
    rep,                \* rep[m]: where the reporter task of m is suspended
    repCancelled,       \* report.cancel() was called on reporter m
    finalPushes,        \* info_message.edit calls of reporter m after its cancel
    lastPush,           \* the text of reporter m's edit after its cancel
    reads,              \* generations that read thread_contents_kv
    startLog,           \* startLog[c]: turns in the order the agent was invoked
    turnIn,             \* turnIn[t]: message_history handed to the agent for t
    turnOut,            \* turnOut[t]: res.all_messages() the agent returned for t
    overlapped,         \* overlapped[c]: a turn was accepted while another was unsettled
    attachments,        \* _parse_message: user.attachments
    parse_pc,           \* _parse_message: where the call is
    pos,                \* _parse_message: attachments the loop has passed
    user_message,       \* _parse_message: the content parts after the text
    ignored_attachments \* _parse_message: the filenames set aside

vars == <<policy, nmsgs, chan, author, thr, pc, nthreads, thread_user_kv,
          thread_contents_kv, active_streams, message_history,
          current_message, cancelReq, waitOn, outcome, rep,
          repCancelled, finalPushes, lastPush, reads, startLog, turnIn,
          turnOut, overlapped, attachments, parse_pc, pos, user_message,
          ignored_attachments>>

\* ModelRequest / ModelResponse records of one turn.
Req(t) == [kind |-> "req", turn |-> t]
Resp(t) == [kind |-> "resp", turn |-> t]

\* A key of active_streams that is not present.
Absent == [has |-> FALSE, queue |-> <<>>, task |-> NoRef]
\* A key of thread_contents_kv that is not present (txn.get returns None).
NoHistory == [has |-> FALSE, log |-> <<>>]
Unset == [set |-> FALSE, log |-> <<>>]

\* A reporter that has made no edit after a cancel.
NoPush == [form |-> "none", cost |-> FALSE, note |-> "none"]

\* The controller after construction: empty stores, no session.
InitController ==
    /\ policy \in {"Queue", "Preempt"}
    /\ nmsgs = 0
    /\ chan = [m \in Msgs |-> RootChannel]
    /\ author = [m \in Msgs |-> 1]
    /\ thr = [m \in Msgs |-> NoRef]
    /\ pc = [m \in Msgs |-> "none"]
    /\ nthreads = 0
    /\ thread_user_kv = [c \in Threads |-> NoOwner]
    /\ thread_contents_kv = [c \in Threads |-> NoHistory]
    /\ active_streams = [c \in Threads |-> Absent]
    /\ message_history = [m \in Msgs |-> <<>>]
    /\ current_message = [m \in Msgs |-> m]
    /\ cancelReq = [m \in Msgs |-> FALSE]
    /\ waitOn = [m \in Msgs |-> NoRef]
    /\ outcome = [m \in Msgs |-> "none"]
    /\ rep = [m \in Msgs |-> "none"]
    /\ repCancelled = [m \in Msgs |-> FALSE]
    /\ finalPushes = [m \in Msgs |-> 0]
    /\ lastPush = [m \in Msgs |-> NoPush]
    /\ reads = {}
    /\ startLog = [c \in Threads |-> <<>>]
    /\ turnIn = [m \in Msgs |-> Unset]
    /\ turnOut = [m \in Msgs |-> Unset]
    /\ overlapped = [c \in Threads |-> FALSE]

\* No call of _parse_message is followed attachment by attachment.
ParseIdle ==
    /\ attachments = <<>>
    /\ parse_pc = "idle"
    /\ pos = 0
    /\ user_message = <<>>
    /\ ignored_attachments = <<>>

Init == InitController /\ ParseIdle

msgVars == <<nmsgs, chan, author>>
genVars == <<message_history, current_message, outcome>>
taskVars == <<cancelReq, waitOn>>
repVars == <<rep, repCancelled, finalPushes, lastPush>>
parseVars == <<attachments, parse_pc, pos, user_message, ignored_attachments>>
turnVars == <<startLog, turnIn, turnOut>>

\* The handler or the generation of m has begun and has not finished.
Unsettled(m) == pc[m] \notin {"none", "rejected", "done"}

(***************************************************************************)
(* The handler's prefix, the same text in agent.py and main.py.            *)
(***************************************************************************)

\* The MessageCreateEvent numbered m is dispatched to its listener.
Dispatch(m, ch, a) ==
    /\ nmsgs < MaxMsgs
    /\ m = nmsgs + 1
    /\ nmsgs' = m
    /\ chan' = [chan EXCEPT ![m] = ch]
    /\ author' = [author EXCEPT ![m] = a]

\* A message in the root channel: the handler runs up to
\* `await bot.rest.create_thread(...)`.  Users are interchangeable, so the
\* owner of the k-th thread is named among the first k users.
HandlerRoot(a) ==
    /\ nthreads + Cardinality({m \in Msgs : pc[m] = "creating"}) < MaxThreads
    /\ a <= nthreads + 1
    /\ Dispatch(nmsgs + 1, RootChannel, a)
    /\ pc' = [pc EXCEPT ![nmsgs + 1] = "creating"]
    /\ UNCHANGED <<policy, parseVars, thr, nthreads, thread_user_kv, thread_contents_kv,
                   active_streams, genVars, taskVars, repVars, reads,
                   turnVars, overlapped>>

\* The lookup without the comparison of the author with the owner.
VerdictAnyAuthor(ch, a, cached) ==
    IF thread_user_kv[ch] = NoOwner THEN "not a known thread"
    ELSE IF ~cached THEN "thread not in cache"
    ELSE "ok"

\* The else branch for a message in channel ch by a: the owner lookup, the
\* author comparison and the cache lookup (cached: what bot.cache holds).
Verdict(ch, a, cached) ==
    IF thread_user_kv[ch] = NoOwner THEN "not a known thread"
    ELSE IF thread_user_kv[ch] # a THEN "wrong user"
    ELSE IF ~cached THEN "thread not in cache"
    ELSE "ok"

\* A rejection that records the author as the owner of a thread that has
\* no owner yet.
HandlerRejectClaiming(a, ch, cached) ==
    /\ Verdict(ch, a, cached) # "ok"
    /\ Dispatch(nmsgs + 1, ch, a)
    /\ pc' = [pc EXCEPT ![nmsgs + 1] = "rejected"]
    /\ thread_user_kv' = IF thread_user_kv[ch] = NoOwner
                         THEN [thread_user_kv EXCEPT ![ch] = a]
                         ELSE thread_user_kv
    /\ UNCHANGED <<policy, parseVars, thr, nthreads, thread_contents_kv,
                   active_streams, genVars, taskVars, repVars, reads,
                   turnVars, overlapped>>

\* A rejected message: add_reaction and return.
HandlerReject(a, ch, cached) ==
    /\ Verdict(ch, a, cached) # "ok"
    /\ Dispatch(nmsgs + 1, ch, a)
    /\ pc' = [pc EXCEPT ![nmsgs + 1] = "rejected"]
    /\ UNCHANGED <<policy, parseVars, thr, nthreads, thread_user_kv, thread_contents_kv,
                   active_streams, genVars, taskVars, repVars, reads,
                   turnVars, overlapped>>

\* with self.db.begin() as txn: txn.get(key, db=thread_contents_kv), decoded.
ReadHistory(c) ==
    IF thread_contents_kv[c].has THEN thread_contents_kv[c].log ELSE <<>>

\* A put under one key for every thread instead of the thread's own.
CommitOneKey(c, h) ==
    thread_contents_kv' =
        [thread_contents_kv EXCEPT
            ![CHOOSE d \in Threads : \A e \in Threads : d <= e] =
                [has |-> TRUE, log |-> h]]

\* txn.put(key, to_json(h), db=thread_contents_kv)
Commit(c, h) ==
    thread_contents_kv' = [thread_contents_kv EXCEPT ![c] = [has |-> TRUE, log |-> h]]

\* Only the messages of the new run (new_messages() for all_messages()).
new_messages(h, t) == <<Req(t), Resp(t)>>

\* The history the agent runtime returns for turn t run on history h.
all_messages(h, t) == h \o <<Req(t), Resp(t)>>

\* report.cancel()
ReportCancel(m) ==
    repCancelled' = [repCancelled EXCEPT ![m] = TRUE]

(***************************************************************************)
(* agent.py: DiscordAgent.message_create_handler and respond_to_message.   *)
(***************************************************************************)

message_create_handler_root(a) ==
    /\ policy = "Queue"
    /\ HandlerRoot(a)

message_create_handler_reject(a, ch, cached) ==
    /\ policy = "Queue"
    /\ HandlerReject(a, ch, cached)

\* self.active_streams[thread.id] = []
NewSession == [has |-> TRUE, queue |-> <<>>, task |-> NoRef]

\* `if thread.id in self.active_streams`: append and return, else run up to
\* `await thread.send("starting...")`.
QueueOrStart(m, c) ==
    IF active_streams[c].has
    THEN /\ active_streams' = [active_streams EXCEPT ![c].queue = Append(@, m)]
         /\ pc' = [pc EXCEPT ![m] = "queued"]
    ELSE /\ pc' = [pc EXCEPT ![m] = "starting"]
         /\ UNCHANGED active_streams

\* create_thread returned: the owner is written, then the session test.
message_create_handler_created(m) ==
    /\ policy = "Queue"
    /\ pc[m] = "creating"
    /\ LET c == nthreads + 1 IN
        /\ nthreads' = c
        /\ thr' = [thr EXCEPT ![m] = c]
        /\ thread_user_kv' = [thread_user_kv EXCEPT ![c] = author[m]]
        /\ QueueOrStart(m, c)
    /\ UNCHANGED <<policy, parseVars, msgVars, thread_contents_kv, genVars, taskVars,
                   repVars, reads, turnVars, overlapped>>

\* A message in a known thread by its owner.
message_create_handler_thread(a, ch, cached) ==
    /\ policy = "Queue"
    /\ Verdict(ch, a, cached) = "ok"
    /\ Dispatch(nmsgs + 1, ch, a)
    /\ thr' = [thr EXCEPT ![nmsgs + 1] = ch]
    /\ overlapped' = [overlapped EXCEPT ![ch] =
                         @ \/ \E o \in Msgs : thr[o] = ch /\ Unsettled(o)]
    /\ QueueOrStart(nmsgs + 1, ch)
    /\ UNCHANGED <<policy, parseVars, nthreads, thread_user_kv, thread_contents_kv,
                   genVars, taskVars, repVars, reads, turnVars>>

\* The agent runtime is invoked for turn t of thread c on history h.
RunAgent(c, t, h) ==
    /\ startLog' = [startLog EXCEPT ![c] = Append(@, t)]
    /\ turnIn' = [turnIn EXCEPT ![t] = [set |-> TRUE, log |-> h]]

\* `await self._parse_message(current_message)` for turn t in generation m.
\* inline: the message has an attachment of an allowed media type, so the
\* generation waits in attachment.read(); otherwise the parse does not
\* suspend and the agent is invoked on history h.
ParseThenRun(m, c, t, h, inline) ==
    IF inline
    THEN /\ pc' = [pc EXCEPT ![m] = "fetch"]
         /\ UNCHANGED <<startLog, turnIn>>
    ELSE /\ pc' = [pc EXCEPT ![m] = "agent"]
         /\ RunAgent(c, t, h)

\* thread.send("starting...") returned: the session entry is set, and
\* respond_to_message runs up to its first wait (the store read, the
\* reporter task, the parse of the first message).
\* The reporter's first step is queued before anything that can resume the
\* generation, so its first edit is pending when the generation next runs.
message_create_handler_begin(m, inline) ==
    /\ policy = "Queue"
    /\ pc[m] = "starting"
    /\ LET c == thr[m]
           h == ReadHistory(c)
       IN /\ active_streams' = [active_streams EXCEPT ![c] = NewSession]
          /\ message_history' = [message_history EXCEPT ![m] = h]
          /\ reads' = reads \cup {m}
          /\ ParseThenRun(m, c, m, h, inline)
    /\ current_message' = [current_message EXCEPT ![m] = m]
    /\ rep' = [rep EXCEPT ![m] = "edit"]
    /\ UNCHANGED <<policy, parseVars, msgVars, thr, nthreads, thread_user_kv,
                   thread_contents_kv, outcome, taskVars,
                   repCancelled, finalPushes, lastPush, turnOut, overlapped>>

\* The finally block of agent.py with local history h: del, report.cancel(),
\* commit.  A missing key makes del raise KeyError, which skips the rest.
QueueFinally(m, h) ==
    LET c == thr[m] IN
    IF active_streams[c].has
    THEN /\ active_streams' = [active_streams EXCEPT ![c] = Absent]
         /\ ReportCancel(m)
         /\ Commit(c, h)
    ELSE UNCHANGED <<active_streams, repCancelled, thread_contents_kv>>

\* A PartEndEvent with a TextPart: the generation waits in thread.send(chunk).
respond_to_message_text(m) ==
    /\ policy = "Queue"
    /\ pc[m] = "agent"
    /\ pc' = [pc EXCEPT ![m] = "send"]
    /\ UNCHANGED <<policy, parseVars, msgVars, thr, nthreads, thread_user_kv,
                   thread_contents_kv, active_streams, genVars, taskVars,
                   repVars, reads, turnVars, overlapped>>

\* thread.send(chunk) returned: back to waiting on the stream.
respond_to_message_sent(m) ==
    /\ policy = "Queue"
    /\ pc[m] = "send"
    /\ pc' = [pc EXCEPT ![m] = "agent"]
    /\ UNCHANGED <<policy, parseVars, msgVars, thr, nthreads, thread_user_kv,
                   thread_contents_kv, active_streams, genVars, taskVars,
                   repVars, reads, turnVars, overlapped>>

\* The last attachment.read() of the parse returned: the agent is invoked.
respond_to_message_fetched(m) ==
    /\ policy = "Queue"
    /\ pc[m] = "fetch"
    /\ pc' = [pc EXCEPT ![m] = "agent"]
    /\ RunAgent(thr[m], current_message[m], message_history[m])
    /\ UNCHANGED <<policy, parseVars, msgVars, thr, nthreads, thread_user_kv,
                   thread_contents_kv, active_streams, genVars, taskVars,
                   repVars, reads, turnOut, overlapped>>

\* attachment.read() raises: nothing catches it in _parse_message or in the
\* loop, so the exception leaves through the finally block.
respond_to_message_fetch_error(m) ==
    /\ policy = "Queue"
    /\ pc[m] = "fetch"
    /\ QueueFinally(m, message_history[m])
    /\ pc' = [pc EXCEPT ![m] = "done"]
    /\ outcome' = [outcome EXCEPT ![m] = "fetcherror"]
    /\ UNCHANGED <<policy, parseVars, msgVars, thr, nthreads, thread_user_kv,
                   message_history, current_message, taskVars, rep,
                   finalPushes, lastPush, reads, turnVars, overlapped>>

\* The AgentRunResultEvent and the end of the stream: lines 124-134.  When
\* a queued message is popped the loop goes on to its parse (inline).
respond_to_message_result(m, inline) ==
    /\ policy = "Queue"
    /\ pc[m] = "agent"
    /\ LET c == thr[m]
           t == current_message[m]
           h == all_messages(message_history[m], t)
       IN /\ message_history' = [message_history EXCEPT ![m] = h]
          /\ IF ~active_streams[c].has
             THEN \* KeyError at line 126 and again at line 131
                  /\ pc' = [pc EXCEPT ![m] = "done"]
                  /\ outcome' = [outcome EXCEPT ![m] = "keyerror"]
                  /\ turnOut' = [turnOut EXCEPT ![t] = [set |-> TRUE, log |-> h]]
                  /\ UNCHANGED <<active_streams, repCancelled, thread_contents_kv,
                                 current_message, startLog, turnIn>>
             ELSE IF active_streams[c].queue # <<>>
             THEN LET n == Head(active_streams[c].queue) IN
                  /\ active_streams' = [active_streams EXCEPT ![c].queue = Tail(@)]
                  /\ current_message' = [current_message EXCEPT ![m] = n]
                  /\ ParseThenRun(m, c, n, h, inline)
                  /\ turnOut' = [turnOut EXCEPT ![t] = [set |-> TRUE, log |-> h]]
                  /\ UNCHANGED <<outcome, repCancelled, thread_contents_kv>>
             ELSE /\ QueueFinally(m, h)
                  /\ pc' = [pc EXCEPT ![m] = "done"]
                  /\ outcome' = [outcome EXCEPT ![m] = "ok"]
                  /\ turnOut' = [turnOut EXCEPT ![t] = [set |-> TRUE, log |-> h]]
                  /\ UNCHANGED <<current_message, startLog, turnIn>>
    /\ UNCHANGED <<policy, parseVars, msgVars, thr, nthreads, thread_user_kv, taskVars,
                   rep, finalPushes, lastPush, reads, overlapped>>

\* The agent's stream raises: the exception leaves through the finally block.
respond_to_message_agent_error(m) ==
    /\ policy = "Queue"
    /\ pc[m] = "agent"
    /\ QueueFinally(m, message_history[m])
    /\ pc' = [pc EXCEPT ![m] = "done"]
    /\ outcome' = [outcome EXCEPT ![m] = "error"]
    /\ UNCHANGED <<policy, parseVars, msgVars, thr, nthreads, thread_user_kv,
                   message_history, current_message, taskVars, rep,
                   finalPushes, lastPush, reads, turnVars, overlapped>>

\* thread.send(chunk) raises: the same exit.
respond_to_message_send_error(m) ==
    /\ policy = "Queue"
    /\ pc[m] = "send"
    /\ QueueFinally(m, message_history[m])
    /\ pc' = [pc EXCEPT ![m] = "done"]
    /\ outcome' = [outcome EXCEPT ![m] = "error"]
    /\ UNCHANGED <<policy, parseVars, msgVars, thr, nthreads, thread_user_kv,
                   message_history, current_message, taskVars, rep,
                   finalPushes, lastPush, reads, turnVars, overlapped>>

(***************************************************************************)
(* main.py: ping and respond_to_message.                                   *)
(***************************************************************************)

ping_root(a) ==
    /\ policy = "Preempt"
    /\ HandlerRoot(a)

ping_reject(a, ch, cached) ==
    /\ policy = "Preempt"
    /\ HandlerReject(a, ch, cached)

\* `if thread.id in active_streams`: cancel the recorded task and await it.
\* Awaiting a task that is done does not suspend: a CancelledError it raises
\* is swallowed and the handler runs on to `await thread.send("starting...")`,
\* while the exception of a task that ended in attachment.read() is raised
\* again in the handler, which ends there.
CancelOrStart(m, c) ==
    IF active_streams[c].has /\ pc[active_streams[c].task] # "done"
    THEN /\ cancelReq' = [cancelReq EXCEPT ![active_streams[c].task] = TRUE]
         /\ waitOn' = [waitOn EXCEPT ![m] = active_streams[c].task]
         /\ pc' = [pc EXCEPT ![m] = "awaitOld"]
         /\ UNCHANGED outcome
    ELSE IF active_streams[c].has /\ outcome[active_streams[c].task] = "fetcherror"
    THEN /\ pc' = [pc EXCEPT ![m] = "done"]
         /\ outcome' = [outcome EXCEPT ![m] = "raised"]
         /\ UNCHANGED <<cancelReq, waitOn>>
    ELSE /\ pc' = [pc EXCEPT ![m] = "starting"]
         /\ UNCHANGED <<cancelReq, waitOn, outcome>>

\* create_thread returned: the owner is written, then the session test.
ping_created(m) ==
    /\ policy = "Preempt"
    /\ pc[m] = "creating"
    /\ LET c == nthreads + 1 IN
        /\ nthreads' = c
        /\ thr' = [thr EXCEPT ![m] = c]
        /\ thread_user_kv' = [thread_user_kv EXCEPT ![c] = author[m]]
        /\ CancelOrStart(m, c)
    /\ UNCHANGED <<policy, parseVars, msgVars, thread_contents_kv, active_streams,
                   message_history, current_message, repVars, reads,
                   turnVars, overlapped>>

\* A message in a known thread by its owner.
ping_thread(a, ch, cached) ==
    /\ policy = "Preempt"
    /\ Verdict(ch, a, cached) = "ok"
    /\ Dispatch(nmsgs + 1, ch, a)
    /\ thr' = [thr EXCEPT ![nmsgs + 1] = ch]
    /\ overlapped' = [overlapped EXCEPT ![ch] =
                         @ \/ \E o \in Msgs : thr[o] = ch /\ Unsettled(o)]
    /\ CancelOrStart(nmsgs + 1, ch)
    /\ UNCHANGED <<policy, parseVars, nthreads, thread_user_kv, thread_contents_kv,
                   active_streams, message_history, current_message,
                   repVars, reads, turnVars>>

\* The awaited task is done: on to `await thread.send("starting...")`.
\* The step of that task's reporter that report.cancel made ready was
\* queued before this wake-up, so the reporter is in its last edit by now.
ping_resume(m) ==
    /\ policy = "Preempt"
    /\ pc[m] = "awaitOld"
    /\ pc[waitOn[m]] = "done"
    /\ ~(repCancelled[waitOn[m]] /\ rep[waitOn[m]] \in {"edit", "sleep"})
    /\ pc' = [pc EXCEPT ![m] = "starting"]
    /\ waitOn' = [waitOn EXCEPT ![m] = NoRef]
    /\ UNCHANGED <<policy, parseVars, msgVars, thr, nthreads, thread_user_kv,
                   thread_contents_kv, active_streams, genVars, cancelReq,
                   repVars, reads, turnVars, overlapped>>

\* active_streams[thread.id] = asyncio.create_task(respond_to_message(...))
NewTask(m) == [has |-> TRUE, queue |-> <<>>, task |-> m]

\* thread.send("starting...") returned: the task is created and recorded.
ping_create_task(m) ==
    /\ policy = "Preempt"
    /\ pc[m] = "starting"
    /\ active_streams' = [active_streams EXCEPT ![thr[m]] = NewTask(m)]
    /\ pc' = [pc EXCEPT ![m] = "created"]
    /\ UNCHANGED <<policy, parseVars, msgVars, thr, nthreads, thread_user_kv,
                   thread_contents_kv, genVars, taskVars, repVars, reads,
                   turnVars, overlapped>>

\* Lines 113-131 for task m: the reporter task is created and agent.run
\* runs up to its wait on the model.
ReportThenRun(m, h) ==
    /\ rep' = [rep EXCEPT ![m] = "edit"]
    /\ pc' = [pc EXCEPT ![m] = "agent"]
    /\ RunAgent(thr[m], m, h)

\* The task's first step: the store read and the attachment loop.  inline:
\* the message has an attachment of an allowed media type, so the task
\* waits in attachment.read(), before the reporter exists and outside the
\* try statement; otherwise it runs on into agent.run.
task_start(m, inline) ==
    /\ policy = "Preempt"
    /\ pc[m] = "created"
    /\ ~cancelReq[m]
    /\ LET h == ReadHistory(thr[m])
       IN /\ message_history' = [message_history EXCEPT ![m] = h]
          /\ reads' = reads \cup {m}
          /\ IF inline
             THEN /\ pc' = [pc EXCEPT ![m] = "fetch"]
                  /\ UNCHANGED <<rep, startLog, turnIn>>
             ELSE ReportThenRun(m, h)
    /\ UNCHANGED <<policy, parseVars, msgVars, thr, nthreads, thread_user_kv,
                   thread_contents_kv, active_streams, current_message,
                   outcome, taskVars, repCancelled, finalPushes, lastPush, turnOut,
                   overlapped>>

\* The last attachment.read() returned.
task_fetched(m) ==
    /\ policy = "Preempt"
    /\ pc[m] = "fetch"
    /\ ~cancelReq[m]
    /\ ReportThenRun(m, message_history[m])
    /\ UNCHANGED <<policy, parseVars, msgVars, thr, nthreads, thread_user_kv,
                   thread_contents_kv, active_streams, genVars, taskVars,
                   repCancelled, finalPushes, lastPush, reads, turnOut,
                   overlapped>>

\* attachment.read() raises at line 108: the task ends with that exception;
\* nothing is committed and no reporter was created.
task_fetch_error(m) ==
    /\ policy = "Preempt"
    /\ pc[m] = "fetch"
    /\ ~cancelReq[m]
    /\ pc' = [pc EXCEPT ![m] = "done"]
    /\ outcome' = [outcome EXCEPT ![m] = "fetcherror"]
    /\ UNCHANGED <<policy, parseVars, msgVars, thr, nthreads, thread_user_kv,
                   thread_contents_kv, active_streams, message_history,
                   current_message, taskVars, repVars, reads, turnVars,
                   overlapped>>

\* A task cancelled before its first step never runs its coroutine; one
\* cancelled in attachment.read() ends there, outside the try statement.
task_cancelled_unstarted(m) ==
    /\ policy = "Preempt"
    /\ pc[m] \in {"created", "fetch"}
    /\ cancelReq[m]
    /\ pc' = [pc EXCEPT ![m] = "done"]
    /\ outcome' = [outcome EXCEPT ![m] = "cancelled"]
    /\ UNCHANGED <<policy, parseVars, msgVars, thr, nthreads, thread_user_kv,
                   thread_contents_kv, active_streams, message_history,
                   current_message, taskVars, repVars, reads, turnVars,
                   overlapped>>

\* What capture_run_messages() holds for task m: the history the run was
\* given and the new request while agent.run waits on the model, and the
\* response too once agent.run has returned.
messages(m) ==
    IF pc[m] = "agent"
    THEN message_history[m] \o <<Req(m)>>
    ELSE all_messages(message_history[m], m)

\* agent.run returned: the task waits in thread.send(chunk).
task_agent_returned(m) ==
    /\ policy = "Preempt"
    /\ pc[m] = "agent"
    /\ ~cancelReq[m]
    /\ pc' = [pc EXCEPT ![m] = "send"]
    /\ turnOut' = [turnOut EXCEPT ![m] =
                      [set |-> TRUE, log |-> all_messages(message_history[m], m)]]
    /\ UNCHANGED <<policy, parseVars, msgVars, thr, nthreads, thread_user_kv,
                   thread_contents_kv, active_streams, genVars, taskVars,
                   repVars, reads, startLog, turnIn, overlapped>>

\* The finally block of main.py: txn.put(key, to_json(messages)).
PreemptFinally(m) == Commit(thr[m], messages(m))

\* The last chunk was sent: report.cancel(cost), then the finally block.
task_sent(m) ==
    /\ policy = "Preempt"
    /\ pc[m] = "send"
    /\ ~cancelReq[m]
    /\ ReportCancel(m)
    /\ PreemptFinally(m)
    /\ pc' = [pc EXCEPT ![m] = "done"]
    /\ outcome' = [outcome EXCEPT ![m] = "ok"]
    /\ UNCHANGED <<policy, parseVars, msgVars, thr, nthreads, thread_user_kv,
                   active_streams, message_history, current_message,
                   taskVars, rep, finalPushes, lastPush, reads, turnVars, overlapped>>

\* except asyncio.CancelledError: report.cancel("[interrupted]")
OnCancelled(m) == ReportCancel(m)

\* The CancelledError reaches the task where it waits (agent.run or
\* thread.send): the except clause, then the finally block.
task_cancelled(m) ==
    /\ policy = "Preempt"
    /\ pc[m] \in {"agent", "send"}
    /\ cancelReq[m]
    /\ OnCancelled(m)
    /\ PreemptFinally(m)
    /\ pc' = [pc EXCEPT ![m] = "done"]
    /\ outcome' = [outcome EXCEPT ![m] = "cancelled"]
    /\ UNCHANGED <<policy, parseVars, msgVars, thr, nthreads, thread_user_kv,
                   active_streams, message_history, current_message,
                   taskVars, rep, finalPushes, lastPush, reads, turnVars, overlapped>>

\* except Exception as e: print(...).  The reporter is left running.
OnException(m) == UNCHANGED repCancelled

\* agent.run raises.
task_agent_error(m) ==
    /\ policy = "Preempt"
    /\ pc[m] = "agent"
    /\ ~cancelReq[m]
    /\ OnException(m)
    /\ PreemptFinally(m)
    /\ pc' = [pc EXCEPT ![m] = "done"]
    /\ outcome' = [outcome EXCEPT ![m] = "error"]
    /\ UNCHANGED <<policy, parseVars, msgVars, thr, nthreads, thread_user_kv,
                   active_streams, message_history, current_message,
                   taskVars, rep, finalPushes, lastPush, reads, turnVars, overlapped>>

\* thread.send(chunk) raises.
task_send_error(m) ==
    /\ policy = "Preempt"
    /\ pc[m] = "send"
    /\ ~cancelReq[m]
    /\ OnException(m)
    /\ PreemptFinally(m)
    /\ pc' = [pc EXCEPT ![m] = "done"]
    /\ outcome' = [outcome EXCEPT ![m] = "error"]
    /\ UNCHANGED <<policy, parseVars, msgVars, thr, nthreads, thread_user_kv,
                   active_streams, message_history, current_message,
                   taskVars, rep, finalPushes, lastPush, reads, turnVars, overlapped>>

PreemptNext ==
    \/ \E a \in Users : ping_root(a)
    \/ \E a \in Users, ch \in Threads, cached \in BOOLEAN :
          ping_reject(a, ch, cached)
    \/ \E a \in Users, ch \in Threads, cached \in BOOLEAN :
          ping_thread(a, ch, cached)
    \/ \E m \in Msgs : ping_created(m)
    \/ \E m \in Msgs : ping_resume(m)
    \/ \E m \in Msgs : ping_create_task(m)
    \/ \E m \in Msgs, inline \in BOOLEAN : task_start(m, inline)
    \/ \E m \in Msgs : task_fetched(m)
    \/ \E m \in Msgs : task_fetch_error(m)
    \/ \E m \in Msgs : task_cancelled_unstarted(m)
    \/ \E m \in Msgs : task_agent_returned(m)
    \/ \E m \in Msgs : task_sent(m)
    \/ \E m \in Msgs : task_cancelled(m)
    \/ \E m \in Msgs : task_agent_error(m)
    \/ \E m \in Msgs : task_send_error(m)

(***************************************************************************)
(* The reporter task (agent.py 88-105, main.py 116-125).  Its edits of the *)
(* status message are taken to succeed: a gateway failure of an edit is    *)
(* outside the model.                                                      *)
(***************************************************************************)

\* info_message.edit returned: the reporter sleeps for a second.
reporter_edited(m) ==
    /\ rep[m] = "edit"
    /\ ~repCancelled[m]
    /\ rep' = [rep EXCEPT ![m] = "sleep"]
    /\ UNCHANGED <<policy, parseVars, msgVars, thr, pc, nthreads, thread_user_kv,
                   thread_contents_kv, active_streams, genVars, taskVars,
                   repCancelled, finalPushes, lastPush, reads, turnVars, overlapped>>

\* asyncio.sleep(1.0) returned: the next render is pushed.
reporter_woke(m) ==
    /\ rep[m] = "sleep"
    /\ ~repCancelled[m]
    /\ rep' = [rep EXCEPT ![m] = "edit"]
    /\ UNCHANGED <<policy, parseVars, msgVars, thr, pc, nthreads, thread_user_kv,
                   thread_contents_kv, active_streams, genVars, taskVars,
                   repCancelled, finalPushes, lastPush, reads, turnVars, overlapped>>

\* A reporter that ends on cancellation without its last edit.
reporter_on_cancel_silent == [next |-> "stopped", pushes |-> 0]

\* What `except asyncio.CancelledError` does: one edit, awaited.
reporter_on_cancel == [next |-> "final", pushes |-> 1]

\* agent.py: report = asyncio.create_task(reporter()), so done is False.
reporter_done == FALSE

\* agent.py build_msg(): the elapsed time in the form `done` selects, and
\* the cost once an AgentRunResultEvent of the generation has set it.
build_msg(m) ==
    [form |-> IF reporter_done THEN "worked" ELSE "working",
     cost |-> turnOut[m].set,
     note |-> "none"]

\* main.py: the argument of the report.cancel call that task m made, the
\* cost at line 136 (after the chunks were sent) or "[interrupted]" at 138.
cancel_msg(m) == IF outcome[m] = "ok" THEN "cost" ELSE "[interrupted]"

\* main.py line 124: "info: thought for Ns\n" + str(e).
thought_msg(m) ==
    [form |-> "thought",
     cost |-> cancel_msg(m) = "cost",
     note |-> IF cancel_msg(m) = "cost" THEN "none" ELSE cancel_msg(m)]

\* The text of the edit in `except asyncio.CancelledError`.
final_render(m) == IF policy = "Queue" THEN build_msg(m) ELSE thought_msg(m)

\* The CancelledError reaches the suspended reporter.
reporter_cancelled(m) ==
    /\ rep[m] \in {"edit", "sleep"}
    /\ repCancelled[m]
    /\ rep' = [rep EXCEPT ![m] = reporter_on_cancel.next]
    /\ finalPushes' = [finalPushes EXCEPT ![m] = @ + reporter_on_cancel.pushes]
    /\ lastPush' = [lastPush EXCEPT ![m] =
                       IF reporter_on_cancel.pushes > 0 THEN final_render(m) ELSE @]
    /\ UNCHANGED <<policy, parseVars, msgVars, thr, pc, nthreads, thread_user_kv,
                   thread_contents_kv, active_streams, genVars, taskVars,
                   repCancelled, reads, turnVars, overlapped>>

\* The final edit returned: the reporter task is over.
reporter_final_done(m) ==
    /\ rep[m] = "final"
    /\ rep' = [rep EXCEPT ![m] = "stopped"]
    /\ UNCHANGED <<policy, parseVars, msgVars, thr, pc, nthreads, thread_user_kv,
                   thread_contents_kv, active_streams, genVars, taskVars,
                   repCancelled, finalPushes, lastPush, reads, turnVars, overlapped>>

QueueNext ==
    \/ \E a \in Users : message_create_handler_root(a)
    \/ \E a \in Users, ch \in Threads, cached \in BOOLEAN :
          message_create_handler_reject(a, ch, cached)
    \/ \E a \in Users, ch \in Threads, cached \in BOOLEAN :
          message_create_handler_thread(a, ch, cached)
    \/ \E m \in Msgs : message_create_handler_created(m)
    \/ \E m \in Msgs, inline \in BOOLEAN : message_create_handler_begin(m, inline)
    \/ \E m \in Msgs : respond_to_message_fetched(m)
    \/ \E m \in Msgs : respond_to_message_fetch_error(m)
    \/ \E m \in Msgs : respond_to_message_text(m)
    \/ \E m \in Msgs : respond_to_message_sent(m)
    \/ \E m \in Msgs, inline \in BOOLEAN : respond_to_message_result(m, inline)
    \/ \E m \in Msgs : respond_to_message_agent_error(m)
    \/ \E m \in Msgs : respond_to_message_send_error(m)

ReporterNext ==
    \/ \E m \in Msgs : reporter_edited(m)
    \/ \E m \in Msgs : reporter_woke(m)
    \/ \E m \in Msgs : reporter_cancelled(m)
    \/ \E m \in Msgs : reporter_final_done(m)

Next == QueueNext \/ PreemptNext \/ ReporterNext

Spec == Init /\ [][Next]_vars

(***************************************************************************)
(* _parse_message (agent.py 57-72; the same loop is main.py 99-111),       *)
(* followed attachment by attachment.  The controller above only keeps     *)
(* whether the parse waits in attachment.read(); here the call is run on   *)
(* every list of up to MaxAttachments attachments.  The i-th attachment of *)
(* a message has the file name i and the content i.                        *)
(***************************************************************************)

IMAGE_MEDIA_TYPES ==
    {"image/avif", "image/bmp", "image/gif", "image/jpeg", "image/png",
     "image/svg+xml", "image/webp"}

AUDIO_MEDIA_TYPES == {"audio/aac", "audio/mpeg", "audio/wav", "audio/webm"}

\* Media types of attachments that the lists do not name.
OtherMediaTypes == {"text/plain", "video/mp4", "application/zip"}

MediaTypes == IMAGE_MEDIA_TYPES \cup AUDIO_MEDIA_TYPES
                  \cup {"application/pdf"} \cup OtherMediaTypes

\* The test of line 64 without the pdf entry.
InlineTypeNoPdf(t) == t \in IMAGE_MEDIA_TYPES \cup AUDIO_MEDIA_TYPES

\* attachment.media_type in IMAGE_MEDIA_TYPES + AUDIO_MEDIA_TYPES + [pdf]
InlineType(t) ==
    t \in IMAGE_MEDIA_TYPES \cup AUDIO_MEDIA_TYPES \cup {"application/pdf"}

\* The attachment lists of a message: position i holds file i.
AttachmentLists ==
    UNION {[1..n -> MediaTypes] : n \in 0..MaxAttachments}

Attachment(i, t) == [filename |-> i, media_type |-> t, data |-> i]

\* user.content, the first element of user_message.
TextPart == [kind |-> "text", data |-> 0, media_type |-> "text"]

\* BinaryContent(data, media_type=attachment.media_type)
BinaryContent(data, t) == [kind |-> "binary", data |-> data, media_type |-> t]

ctlVars == <<policy, msgVars, thr, pc, nthreads, thread_user_kv,
             thread_contents_kv, active_streams, genVars, taskVars, repVars,
             reads, turnVars, overlapped>>

ParseInit ==
    /\ InitController
    /\ \E types \in AttachmentLists :
          attachments = [i \in DOMAIN types |-> Attachment(i, types[i])]
    /\ parse_pc = "idle"
    /\ pos = 0
    /\ user_message = <<>>
    /\ ignored_attachments = <<>>

\* Lines 58-62: the text part, and the empty ignored list.
parse_message_call ==
    /\ parse_pc = "idle"
    /\ user_message' = <<TextPart>>
    /\ ignored_attachments' = <<>>
    /\ parse_pc' = "loop"
    /\ UNCHANGED <<ctlVars, attachments, pos>>

\* An attachment of an allowed type: the call waits in attachment.read().
parse_message_read ==
    /\ parse_pc = "loop"
    /\ pos < Len(attachments)
    /\ InlineType(attachments[pos + 1].media_type)
    /\ parse_pc' = "read"
    /\ UNCHANGED <<ctlVars, attachments, pos, user_message, ignored_attachments>>

\* attachment.read() returned the content: line 68.
parse_message_append ==
    /\ parse_pc = "read"
    /\ LET a == attachments[pos + 1] IN
          user_message' = Append(user_message, BinaryContent(a.data, a.media_type))
    /\ pos' = pos + 1
    /\ parse_pc' = "loop"
    /\ UNCHANGED <<ctlVars, attachments, ignored_attachments>>

\* attachment.read() raised: nothing in _parse_message catches it.
parse_message_raise ==
    /\ parse_pc = "read"
    /\ parse_pc' = "raised"
    /\ UNCHANGED <<ctlVars, attachments, pos, user_message, ignored_attachments>>

\* Any other attachment: line 70.
parse_message_ignore ==
    /\ parse_pc = "loop"
    /\ pos < Len(attachments)
    /\ ~InlineType(attachments[pos + 1].media_type)
    /\ ignored_attachments' = Append(ignored_attachments, attachments[pos + 1].filename)
    /\ pos' = pos + 1
    /\ UNCHANGED <<ctlVars, attachments, parse_pc, user_message>>

\* The loop is over: return user_message, ignored_attachments.
parse_message_return ==
    /\ parse_pc = "loop"
    /\ pos = Len(attachments)
    /\ parse_pc' = "returned"
    /\ UNCHANGED <<ctlVars, attachments, pos, user_message, ignored_attachments>>

ParseNext ==
    \/ parse_message_call
    \/ parse_message_read
    \/ parse_message_append
    \/ parse_message_raise
    \/ parse_message_ignore
    \/ parse_message_return

ParseSpec == ParseInit /\ [][ParseNext]_vars

(***************************************************************************)
(* The claims.                                                             *)
(***************************************************************************)

\* s is a prefix of t.
IsPrefix(s, t) ==
    /\ Len(s) <= Len(t)
    /\ \A i \in 1..Len(s) : s[i] = t[i]

\* The log holds a record of turn t.
Mentions(log, t) == \E i \in 1..Len(log) : log[i].turn = t

\* Generations of thread c that are inside respond_to_message.
InFlight(c) == {m \in Msgs : thr[m] = c /\ pc[m] \in {"fetch", "agent", "send"}}

\* Tasks of thread c that main.py created and that are not done.
LiveTasks(c) ==
    {m \in Msgs : thr[m] = c /\ pc[m] \in {"created", "fetch", "agent", "send"}}

\* C1: under the Queue policy at most one respond_to_message run is in
\* flight for a conversation at any time.
C1_OneGenerationInFlight ==
    policy = "Queue" =>
        \A c \in Threads : Cardinality(InFlight(c)) <= 1

\* C2: under the Preempt policy at most one respond_to_message task of a
\* conversation is un-settled at any time, and it is the task recorded in
\* active_streams.
C2_OneTaskUnsettled ==
    policy = "Preempt" =>
        \A c \in Threads :
            /\ Cardinality(LiveTasks(c)) <= 1
            /\ \A m \in LiveTasks(c) :
                  active_streams[c].has /\ active_streams[c].task = m

\* C3: under the Preempt policy a cancelled respond_to_message performs no
\* history mutation: nothing of the cancelled turn is in the committed
\* history.
C3_CancelledTurnNotCommitted ==
    policy = "Preempt" =>
        \A m \in Msgs :
            outcome[m] = "cancelled" =>
                ~Mentions(thread_contents_kv[thr[m]].log, m)

\* The turns of startLog[c] before position i.
StartedBefore(c, i) == {startLog[c][j] : j \in 1..(i - 1)}

\* C4: under the Queue policy the turns queued behind an active generation
\* are started one at a time in submission order, and each dequeued turn's
\* generation is given the history produced by the immediately preceding
\* turn of its conversation.
C4_QueuedTurnsFifoOnPriorHistory ==
    policy = "Queue" =>
        \A c \in Threads : \A i \in 1..Len(startLog[c]) :
            LET t == startLog[c][i] IN
            pc[t] = "queued" =>
                /\ i > 1
                /\ turnOut[startLog[c][i - 1]].set
                /\ turnIn[t].log = turnOut[startLog[c][i - 1]].log
                /\ \A u \in Msgs :
                      (thr[u] = c /\ pc[u] = "queued" /\ u < t)
                          => u \in StartedBefore(c, i)

\* C5: a turn for a conversation with no owner record, or by an author who
\* is not the recorded owner, is rejected without touching session state:
\* no entry of active_streams changes, nothing is queued or cancelled, the
\* history store is neither read nor written; and a rejected message stays
\* rejected.
C5_RejectedBeforeSessionState ==
    [][ /\ (nmsgs' = nmsgs + 1) =>
             LET m == nmsgs' IN
             (/\ chan'[m] # RootChannel
              /\ \/ thread_user_kv[chan'[m]] = NoOwner
                 \/ thread_user_kv[chan'[m]] # author'[m])
                => /\ pc'[m] = "rejected"
                   /\ thr'[m] = NoRef
                   /\ UNCHANGED <<active_streams, cancelReq, waitOn, reads,
                                  thread_contents_kv, thread_user_kv>>
        /\ \A m \in Msgs : pc[m] = "rejected" => pc'[m] = "rejected"
      ]_vars

\* A message by someone other than the owner was rejected while the
\* thread had a session.
C5_Witness ==
    \E m \in Msgs :
        /\ pc[m] = "rejected"
        /\ thread_user_kv[chan[m]] \notin {NoOwner, author[m]}
        /\ active_streams[chan[m]].has

\* The accepted turns of thread c whose generation has settled.
Done(c) == {m \in Msgs : thr[m] = c /\ pc[m] = "done"}

\* The records of the turns S, in submission order.
RECURSIVE ExpectedLog(_)
ExpectedLog(S) ==
    IF S = {} THEN <<>>
    ELSE LET m == CHOOSE x \in S : \A y \in S : x <= y
         IN <<Req(m), Resp(m)>> \o ExpectedLog(S \ {m})

\* Every turn accepted for c so far arrived after the one before it had
\* settled, and every settled one ended with a terminal result.
Sequential(c) ==
    /\ ~overlapped[c]
    /\ \A m \in Done(c) : outcome[m] = "ok"

\* C6: after N sequential accepted turns that each ended with a terminal
\* result, the committed history holds exactly those N turns in submission
\* order, and turn k's generation read the log committed by turn k-1.
C6_SequentialTurnsCommitted ==
    \A c \in Threads :
        Sequential(c) =>
            /\ ReadHistory(c) = ExpectedLog(Done(c))
            /\ \A m \in Msgs :
                  (thr[m] = c /\ turnIn[m].set) =>
                      turnIn[m].log = ExpectedLog({u \in Done(c) : u < m})

\* Three sequential turns of one conversation have all settled.
C6_Witness ==
    \E c \in Threads :
        /\ Sequential(c)
        /\ Cardinality(Done(c)) >= 3

\* C7: when the agent runtime fails, the history committed as that
\* generation settles holds the previously committed history and at least
\* the request of the failing turn.
C7_FailedTurnCommitted ==
    [][ \A m \in Msgs :
          (pc[m] = "agent" /\ pc'[m] = "done" /\ outcome'[m] = "error") =>
              /\ IsPrefix(ReadHistory(thr[m]), thread_contents_kv'[thr[m]].log)
              /\ Mentions(thread_contents_kv'[thr[m]].log, current_message[m])
      ]_vars

\* C8: on every exit path of a generation that started a reporter, the
\* reporter has been told to stop by the time the generation has settled.
C8_ReporterStoppedOnEveryExit ==
    \A m \in Msgs :
        (pc[m] = "done" /\ rep[m] # "none") => repCancelled[m]

\* C9: a reporter cancelled while suspended pushes exactly one further
\* render and then stops; it pushes nothing after that.
C9_OneFinalPush ==
    \A m \in Msgs :
        (repCancelled[m] /\ rep[m] # "none") =>
            /\ finalPushes[m] <= 1
            /\ rep[m] \in {"final", "stopped"} => finalPushes[m] = 1
            /\ rep[m] \in {"edit", "sleep"} => finalPushes[m] = 0

\* A cancelled reporter has made its final push and stopped.
C9_Witness ==
    \E m \in Msgs :
        repCancelled[m] /\ rep[m] = "stopped" /\ finalPushes[m] = 1

\* Nothing of thread c is running or waiting to run.
Idle(c) ==
    /\ active_streams[c].queue = <<>>
    /\ \A m \in Msgs : thr[m] = c => pc[m] \in {"done", "queued"}

\* C10: once the backlog is empty and the active generation has settled,
\* no session entry remains for the conversation, under both policies.
C10_NoSessionWhenIdle ==
    \A c \in Threads : Idle(c) => ~active_streams[c].has

\* The media types the classifier is to inline: the image and audio types
\* the lists name, and pdf.
C11_AllowSet ==
    {"image/avif", "image/bmp", "image/gif", "image/jpeg", "image/png",
     "image/svg+xml", "image/webp", "audio/aac", "audio/mpeg", "audio/wav",
     "audio/webm", "application/pdf"}

\* The attachments of the message whose type is / is not in the allow-set,
\* in attachment order.
C11_Allowed == SelectSeq(attachments, LAMBDA a : a.media_type \in C11_AllowSet)
C11_Others == SelectSeq(attachments, LAMBDA a : a.media_type \notin C11_AllowSet)

\* C11: when _parse_message returns, the parts after the text are exactly
\* the attachments of an allowed media type, in attachment order, each with
\* its content and media type; the ignored list is exactly the file names of
\* the other attachments (so no attachment is in both or in neither, and
\* the ignored list is non-empty when a disallowed type is present).
C11_AttachmentsClassified ==
    parse_pc = "returned" =>
        /\ Head(user_message) = TextPart
        /\ Tail(user_message) =
              [i \in 1..Len(C11_Allowed) |->
                  BinaryContent(C11_Allowed[i].data, C11_Allowed[i].media_type)]
        /\ ignored_attachments =
              [i \in 1..Len(C11_Others) |-> C11_Others[i].filename]
        /\ Len(Tail(user_message)) + Len(ignored_attachments) = Len(attachments)
        /\ (\E i \in DOMAIN attachments :
                attachments[i].media_type \notin C11_AllowSet)
              => ignored_attachments # <<>>

\* A message with an image, a pdf and a disallowed attachment was parsed.
C11_Witness ==
    /\ parse_pc = "returned"
    /\ Len(attachments) = MaxAttachments
    /\ \E i, j, k \in DOMAIN attachments :
          /\ attachments[i].media_type \in IMAGE_MEDIA_TYPES
          /\ attachments[j].media_type = "application/pdf"
          /\ attachments[k].media_type \in OtherMediaTypes

\* C12: a failure of attachment.read() is not fatal to the turn: the turn
\* whose attachment could not be read still has the agent invoked for it
\* (and so settles as any other turn does).
C12_FetchFailureNotFatal ==
    \A g \in Msgs :
        outcome[g] = "fetcherror" => turnIn[current_message[g]].set

\* C13: under the Queue policy the store is committed at every turn
\* boundary: when the agent is invoked for a dequeued turn, the store of its
\* conversation holds the history the preceding turn produced, which is the
\* history the dequeued turn is run on.
C13_CommitBeforeNextTurn ==
    [][ policy = "Queue" =>
          \A t \in Msgs :
              (pc[t] = "queued" /\ ~turnIn[t].set /\ turnIn'[t].set) =>
                  thread_contents_kv'[thr[t]] =
                      [has |-> TRUE, log |-> turnIn'[t].log]
      ]_vars

\* C14: no committed history is lost: every write of the history store
\* writes a log that has the log stored before it as a prefix.
C14_CommitExtendsStored ==
    [][ \A c \in Threads :
          thread_contents_kv'[c] # thread_contents_kv[c] =>
              IsPrefix(ReadHistory(c), thread_contents_kv'[c].log)
      ]_vars

\* C15: under the Queue policy the session entry of a conversation is
\* removed only when its backlog is empty.
C15_SessionRemovedOnlyWhenDrained ==
    [][ policy = "Queue" =>
          \A c \in Threads :
              (active_streams[c].has /\ ~active_streams'[c].has) =>
                  active_streams[c].queue = <<>>
      ]_vars

\* Turn m waits in the backlog of its conversation's session.
InBacklog(m) ==
    /\ active_streams[thr[m]].has
    /\ \E i \in 1..Len(active_streams[thr[m]].queue) :
          active_streams[thr[m]].queue[i] = m

\* Turn m was popped from the backlog by the drain loop of a generation:
\* the agent was invoked for it, or it is the message that generation holds.
Dequeued(m) ==
    \/ turnIn[m].set
    \/ \E g \in Msgs : g # m /\ current_message[g] = m

\* C16: under the Queue policy a turn that was added to a backlog is never
\* discarded: until the drain loop pops it, it is in the backlog of its
\* conversation's session.  (A turn that has left the backlog without being
\* popped can never be started, whatever the scheduling.)
C16_QueuedTurnNeverDiscarded ==
    policy = "Queue" =>
        \A m \in Msgs :
            pc[m] = "queued" => (InBacklog(m) \/ Dequeued(m))

\* C17: on a terminal result the last status push of the generation's
\* reporter is a 'done' render: the elapsed time in the finished form
\* ("worked for" / "thought for"), with the final cost.
C17_FinalRenderDone ==
    \A m \in Msgs :
        (outcome[m] = "ok" /\ rep[m] \in {"final", "stopped"}) =>
            /\ lastPush[m].form \in {"worked", "thought"}
            /\ lastPush[m].cost

\* C18: under the Preempt policy, when a generation starts its reporter,
\* the reporter of every generation of that conversation that was cancelled
\* before has stopped: its last edit has completed, so the old reporter
\* makes no push after the new one's first.
C18_OldReporterStoppedFirst ==
    [][ policy = "Preempt" =>
          \A m, n \in Msgs :
              (/\ rep[n] = "none" /\ rep'[n] # "none"
               /\ thr[m] = thr[n]
               /\ outcome[m] = "cancelled"
               /\ rep[m] # "none") => rep[m] = "stopped"
      ]_vars

\* C19: the owner record of a conversation is written once: a step changes
\* it only from absent, only as the thread of a root-channel message is
\* created, and to the author of that message; every thread creation writes
\* it; no other step (a follow-up accepted, queued, preempting or rejected)
\* writes any owner record.
C19_OwnerWrittenOnce ==
    [][ /\ \A c \in Threads :
              thread_user_kv'[c] # thread_user_kv[c] =>
                  /\ thread_user_kv[c] = NoOwner
                  /\ \E m \in Msgs :
                        /\ chan[m] = RootChannel
                        /\ pc[m] = "creating" /\ pc'[m] # "creating"
                        /\ thr'[m] = c
                        /\ thread_user_kv'[c] = author[m]
        /\ \A m \in Msgs :
              (pc[m] = "creating" /\ pc'[m] # "creating") =>
                  /\ thr'[m] \in Threads
                  /\ thread_user_kv[thr'[m]] = NoOwner
                  /\ thread_user_kv'[thr'[m]] = author[m]
      ]_vars

\* A thread has its creator as owner after a follow-up by the owner was
\* accepted and a message of another user in it was rejected.
C19_Witness ==
    \E c \in Threads, r, f, x \in Msgs :
        /\ chan[r] = RootChannel /\ thr[r] = c
        /\ thread_user_kv[c] = author[r]
        /\ chan[f] = c /\ thr[f] = c /\ pc[f] \in {"queued", "awaitOld", "done"}
        /\ chan[x] = c /\ pc[x] = "rejected" /\ author[x] # author[r]

\* The step changes the session entry (with its backlog) or the committed
\* history of conversation d.
Changed(d) ==
    \/ active_streams'[d] # active_streams[d]
    \/ thread_contents_kv'[d] # thread_contents_kv[d]

\* The step is one of the handler, the generation or the reporter of m.
Acted(m) ==
    \/ pc'[m] # pc[m]
    \/ outcome'[m] # outcome[m]
    \/ message_history'[m] # message_history[m]
    \/ current_message'[m] # current_message[m]
    \/ rep'[m] # rep[m]

\* The generation of m gets the agent's result.
GenerationResult(m) ==
    respond_to_message_result(m, FALSE) \/ task_agent_returned(m)

\* The frame of a step: what a message of one conversation does changes no
\* other conversation, and every change of d is made by a message of d.
C20_Frame ==
    /\ \A m \in Msgs :
          (Acted(m) /\ thr'[m] \in Threads) =>
              \A d \in Threads \ {thr'[m]} : ~Changed(d)
    /\ \A d \in Threads :
          Changed(d) => \E m \in Msgs : Acted(m) /\ thr'[m] = d

\* C20: conversations are independent.  A step taken for a message of
\* conversation c leaves the session entry, the backlog and the committed
\* history of every other conversation unchanged, and whatever changes
\* those of d is a step of a message of d; and a generation waiting on the
\* agent can always take its result, whatever has happened in the other
\* conversations.
C20_ConversationsIndependent ==
    /\ [][C20_Frame]_vars
    /\ [](\A m \in Msgs :
              (pc[m] = "agent" /\ ~cancelReq[m]) => ENABLED GenerationResult(m))

\* The generation of one conversation failed, and a turn of another
\* conversation that arrived later was started and settled with a result.
C20_Witness ==
    \E m, n \in Msgs :
        /\ m < n
        /\ thr[m] \in Threads /\ thr[n] \in Threads /\ thr[m] # thr[n]
        /\ outcome[m] \in {"error", "fetcherror"}
        /\ outcome[n] = "ok"
        /\ thread_contents_kv[thr[n]].log = <<Req(n), Resp(n)>>

====
